---- MODULE Spec2Model ----
(***************************************************************************)
(* Stocktwits watcher tracker: main() reads the symbol list, fetches the   *)
(* watchlist_count of every symbol with fetch_watchlist_count (retry and   *)
(* backoff loop), paces between symbols and appends the successes to the   *)
(* CSV log once at the end.                                                *)
(*                                                                         *)
(* One run of main() is modelled, from a symbols file and a CSV file left  *)
(* by earlier runs.  Every network request and every sleep is one step.    *)
(* Python's 0-based enumerate index is kept 1-based here (idx = index+1).  *)
(***************************************************************************)
EXTENDS Integers, Sequences, FiniteSets, TLC

(* ---------------------------------------------------------------- bounds *)
\* calls of append_many_to_csv made on one log when the Sink is followed on
\* its own, and the longest row sequence handed to one of them
MaxAppends == 3
MaxRows == 2
\* longest symbols file (in lines) a run is started on
MaxLines == 3
\* the wall clock is observed in sleeps elapsed since the start, up to here
MaxClock == 1

(* ------------------------------------------------------ module constants *)
MAX_RETRIES == 6
MIN_SLEEP == 2
MAX_SLEEP == 6

\* Python's None for a count (counts are non-negative integers)
None == -1
\* the value of an expression whose evaluation raised AttributeError
Raised == -2
\* no error message (error is None)
NoError == "None"

(* ------------------------------------------------------------ input sets *)
\* lines a symbols file is made of: two symbols (one lower case), a comment
\* and a blank line
FileLines == {"aapl", "TSLA", "# note", ""}

\* watchlist_count values an upstream body carries
Counts == {0, 7}

\* HTTP statuses the upstream answers with; 0 stands for no response at all:
\* session.get raised requests.RequestException (so did resp.json() on a body
\* that is no JSON: requests' JSONDecodeError is a RequestException)
Fault == 0
Statuses == {200, 204, 403, 404, 429, 500, 503}

\* JSON bodies of a 200 response, by the shape of the parts the code reads:
\* top: the top-level value is an object or not; symbol: the "symbol" member
\* is absent, an object, or another JSON value; watchlist_count: the member
\* of the symbol object (None: absent or null)
NoBody == [top |-> "none", symbol |-> "absent", watchlist_count |-> None]
Bodies ==
    {[top |-> "object", symbol |-> "object", watchlist_count |-> c] : c \in Counts \cup {None}}
    \cup {[top |-> "object", symbol |-> "absent", watchlist_count |-> None],
          [top |-> "object", symbol |-> "other", watchlist_count |-> None],
          [top |-> "array", symbol |-> "absent", watchlist_count |-> None]}

NoResp == [status |-> -1, body |-> NoBody]
Responses ==
    {[status |-> 200, body |-> b] : b \in Bodies}
    \cup {[status |-> s, body |-> NoBody] : s \in (Statuses \ {200}) \cup {Fault}}

HeaderRow == <<"date", "symbol", "watchers">>
\* a data row an earlier run left in the log
PriorRow == <<"T-1", "AAPL", "5">>
InitialCsv ==
    {[exists |-> FALSE, lines |-> <<>>],
     [exists |-> TRUE, lines |-> <<HeaderRow, PriorRow>>]}

SeqsUpTo(S, n) == UNION {[1..k -> S] : k \in 0..n}

Min(a, b) == IF a < b THEN a ELSE b

RECURSIVE Pow2(_)
Pow2(n) == IF n = 0 THEN 1 ELSE 2 * Pow2(n - 1)

VARIABLES
    symbols_file,  \* [exists, lines]: the symbols.txt of this run
    csv,           \* [exists, lines]: the CSV log file
    now,           \* wall clock
    pc,            \* where main() is
    symbols,       \* main: symbols
    date_str,      \* main: date_str
    results,       \* main: results
    idx,           \* main: loop index (1-based)
    sleep_time,    \* main: sleep_time while pacing (0 otherwise)
    attempt,       \* fetch_watchlist_count: attempt
    resp,          \* fetch_watchlist_count: outcome of the session.get of the
                   \* attempt under way, or of the last one of a returned call
    wait,          \* fetch_watchlist_count: wait of the backoff sleep under way
                   \* (0: none)
    ret,           \* the (count, error) the last call returned to main
    reqs,          \* history: session.get calls made by the current fetch call
    waits,         \* history: backoff sleeps finished in the current fetch call
    calls,         \* history: loop indices fetch_watchlist_count was called for
    returns,       \* history: the (count, error) each finished call returned
    appends,       \* history: append_many_to_csv calls made
    csv0,          \* history: the CSV log file as the run found it
    prev           \* history: the backoff before the one under way, kept when
                   \* one call is followed on its own (FetchSpec)

vars == <<symbols_file, csv, now, pc, symbols, date_str, results, idx, sleep_time,
          attempt, resp, wait, ret, reqs, waits, calls, returns, appends, csv0, prev>>

(* --------------------------------------------------------- pure functions *)
\* str.strip() / startswith("#") / str.upper() on the lines of FileLines
Strip(line) == line
IsComment(line) == line = "# note"
Upper(line) == IF line = "aapl" THEN "AAPL" ELSE line

RECURSIVE read_lines(_)
read_lines(lines) ==
    IF lines = <<>> THEN <<>>
    ELSE LET line == Strip(Head(lines))
         IN  IF line = "" \/ IsComment(line)
             THEN read_lines(Tail(lines))
             ELSE <<Upper(line)>> \o read_lines(Tail(lines))

read_symbols(file) ==
    IF ~file.exists THEN <<>> ELSE read_lines(file.lines)

\* mutant: data.get("watchlist_count"), the member looked up at the top level
ExtractCountTopLevel(body) ==
    IF body.top # "object" THEN Raised ELSE None

\* mutant: data["symbol"]["watchlist_count"], a missing member raises
ExtractCountSubscript(body) ==
    IF body.top # "object" \/ body.symbol # "object" THEN Raised
    ELSE IF body.watchlist_count = None THEN Raised
    ELSE body.watchlist_count

\* data.get("symbol", {}).get("watchlist_count")
ExtractCount(body) ==
    IF body.top # "object" THEN Raised
    ELSE IF body.symbol = "absent" THEN None
    ELSE IF body.symbol # "object" THEN Raised
    ELSE body.watchlist_count

\* mutant: the 403 branch left out
ClassifyNo403(status) ==
    IF status = 200 THEN "ok"
    ELSE IF status = 429 THEN "rate_limited"
    ELSE IF status >= 500 THEN "server_error"
    ELSE "other"

\* mutant: every status from 400 on taken for a server error
ClassifyFrom400(status) ==
    IF status = 200 THEN "ok"
    ELSE IF status = 429 THEN "rate_limited"
    ELSE IF status = 403 THEN "forbidden"
    ELSE IF status >= 400 THEN "server_error"
    ELSE "other"

\* mutant: the branch of the statuses from 500 on left out
ClassifyNoServerError(status) ==
    IF status = 200 THEN "ok"
    ELSE IF status = 429 THEN "rate_limited"
    ELSE IF status = 403 THEN "forbidden"
    ELSE "other"

\* the branch of the if/elif chain on resp.status_code
Classify(status) ==
    IF status = 200 THEN "ok"
    ELSE IF status = 429 THEN "rate_limited"
    ELSE IF status = 403 THEN "forbidden"
    ELSE IF status >= 500 THEN "server_error"
    ELSE "other"

\* the jitter ranges of random.randint in each retry branch
Jitter(kind) ==
    IF kind = "forbidden" THEN 2..10 ELSE 0..5

\* mutant: the ceilings left out
BackoffWaitUncapped(kind, n, j) ==
    IF kind \in {"rate_limited", "forbidden"} THEN Pow2(n) + j ELSE 5 + j

\* the wait of each retry branch
BackoffWait(kind, n, j) ==
    IF kind = "rate_limited" THEN Min(60, Pow2(n) + j)
    ELSE IF kind = "forbidden" THEN Min(90, Pow2(n) + j)
    ELSE 5 + j

\* datetime.utcnow().strftime(...)
Strftime(t) == "T" \o ToString(t)

\* csv.writer.writerow: every field as text
CsvRow(row) == <<row[1], row[2], ToString(row[3])>>

RECURSIVE CsvRows(_)
CsvRows(rows) ==
    IF rows = <<>> THEN <<>> ELSE <<CsvRow(Head(rows))>> \o CsvRows(Tail(rows))

ensure_csv(file) ==
    IF ~file.exists THEN [exists |-> TRUE, lines |-> <<HeaderRow>>] ELSE file

\* mutant: the file opened with mode "w"
append_truncating(file, rows) ==
    [exists |-> TRUE, lines |-> CsvRows(rows)]

append_many_to_csv(file, rows) ==
    [exists |-> TRUE, lines |-> file.lines \o CsvRows(rows)]

\* time.sleep returns: the clock has moved on
Tick(t) == Min(t + 1, MaxClock)

\* no backoff yet
NoBackoff == [status |-> -1, attempt |-> 0, wait |-> 0]

(* ------------------------------------------------------------------ Init *)
Init ==
    /\ symbols_file \in
         {[exists |-> FALSE, lines |-> <<>>]}
         \cup {[exists |-> TRUE, lines |-> l] : l \in SeqsUpTo(FileLines, MaxLines)}
    /\ csv \in InitialCsv
    /\ csv0 = csv
    /\ prev = NoBackoff
    /\ now = 0
    /\ pc = "main"
    /\ symbols = <<>>
    /\ date_str = ""
    /\ results = <<>>
    /\ idx = 0
    /\ sleep_time = 0
    /\ attempt = 0
    /\ resp = NoResp
    /\ wait = 0
    /\ ret = [count |-> None, error |-> NoError]
    /\ reqs = 0
    /\ waits = 0
    /\ calls = <<>>
    /\ returns = <<>>
    /\ appends = 0

(* --------------------------------------------------------------- actions *)
fetchVars == <<attempt, resp, wait, ret, reqs, waits>>
histVars == <<csv0, prev>>

\* main, up to the loop: read the symbols; none: return; else ensure the CSV,
\* take the run's timestamp and start with no results
MainStart ==
    /\ pc = "main"
    /\ symbols' = read_symbols(symbols_file)
    /\ IF symbols' = <<>>
       THEN /\ pc' = "no_symbols"
            /\ UNCHANGED <<csv, date_str, results, idx>>
       ELSE /\ csv' = ensure_csv(csv)
            /\ date_str' = Strftime(now)
            /\ results' = <<>>
            /\ idx' = 1
            /\ pc' = "loop"
    /\ UNCHANGED <<symbols_file, now, sleep_time, calls, returns, appends>>
    /\ UNCHANGED fetchVars
    /\ UNCHANGED histVars

\* mutant: the attempt counter kept across calls, a call after an exhausted
\* one starts where that one ended
FirstAttemptCarriedOver ==
    IF returns # <<>> /\ returns[Len(returns)].error = "retries_exhausted"
    THEN MAX_RETRIES
    ELSE 1

\* the first value of range(1, MAX_RETRIES + 1), a local of each call
FirstAttempt == 1

\* the loop takes the next symbol and calls fetch_watchlist_count
CallFetch ==
    /\ pc = "loop"
    /\ idx <= Len(symbols)
    /\ attempt' = FirstAttempt
    /\ resp' = NoResp
    /\ wait' = 0
    /\ ret' = [count |-> None, error |-> NoError]
    /\ reqs' = 0
    /\ waits' = 0
    /\ calls' = Append(calls, idx)
    /\ pc' = "attempt"
    /\ UNCHANGED <<symbols_file, csv, now, symbols, date_str, results, idx,
                   sleep_time, returns, appends>>
    /\ UNCHANGED histVars

\* a return statement of fetch_watchlist_count
Return(value) ==
    /\ ret' = value
    /\ returns' = Append(returns, value)
    /\ wait' = 0
    /\ pc' = "returned"

\* what one attempt does with the outcome r of session.get, jitter j
Attempt(r, j) ==
    LET kind == IF r.status = Fault THEN "network_error" ELSE Classify(r.status)
        count == ExtractCount(r.body)
    IN  /\ resp' = r
        /\ reqs' = reqs + 1
        /\ IF kind = "ok"
           THEN IF count = Raised
                THEN \* AttributeError is no RequestException: it leaves
                     \* fetch_watchlist_count and main
                     /\ pc' = "crashed"
                     /\ wait' = 0
                     /\ UNCHANGED <<ret, returns>>
                ELSE IF count = None
                THEN Return([count |-> None, error |-> "no_watchlist_count"])
                ELSE Return([count |-> count, error |-> NoError])
           ELSE IF kind = "other"
           THEN Return([count |-> None, error |-> "http_status"])
           ELSE /\ wait' = BackoffWait(kind, attempt, j)
                /\ pc' = "backoff"
                /\ UNCHANGED <<ret, returns>>

\* the random draws an attempt with outcome r makes (0: none)
JitterOf(r) ==
    IF r.status # Fault /\ Classify(r.status) \in {"ok", "other"}
    THEN {0}
    ELSE Jitter(IF r.status = Fault THEN "network_error" ELSE Classify(r.status))

\* one pass of the retry loop up to its return or its time.sleep
Request ==
    /\ pc = "attempt"
    /\ \E r \in Responses : \E j \in JitterOf(r) : Attempt(r, j)
    /\ UNCHANGED <<symbols_file, csv, now, symbols, date_str, results, idx,
                   sleep_time, attempt, waits, calls, appends>>
    /\ UNCHANGED histVars

\* mutant: range(1, MAX_RETRIES)
LastAttemptShort == MAX_RETRIES - 1

\* the attempts of range(1, MAX_RETRIES + 1)
LastAttempt == MAX_RETRIES

\* time.sleep(wait) returns and the loop goes on: the next attempt, or past
\* the last one the return of the exhausted-retries error
BackoffStep ==
    /\ pc = "backoff"
    /\ now' = Tick(now)
    /\ waits' = waits + 1
    /\ IF attempt < LastAttempt
       THEN /\ attempt' = attempt + 1
            /\ wait' = 0
            /\ resp' = NoResp
            /\ pc' = "attempt"
            /\ UNCHANGED <<ret, returns>>
       ELSE /\ Return([count |-> None, error |-> "retries_exhausted"])
            /\ UNCHANGED <<attempt, resp>>
    /\ UNCHANGED <<symbols_file, csv, symbols, date_str, results, idx,
                   sleep_time, reqs, calls, appends>>

\* the end of a backoff sleep within a run
Backoff ==
    /\ BackoffStep
    /\ UNCHANGED histVars

\* mutant: the same element again
SameIdx(i) == i

\* mutant: results.insert(0, row)
AddResultFront(rs, row) == <<row>> \o rs

\* mutant: the row stamped with the time of its fetch
ResultRowStampedNow(d, s, c) == <<Strftime(now), s, c>>

\* enumerate: the next element
NextIdx(i) == i + 1

\* results.append(row)
AddResult(rs, row) == Append(rs, row)

\* the row main appends for a success
ResultRow(d, s, c) == <<d, s, c>>

\* mutant: if error or not count:
IsErrorOrNoCount(r) == r.error # NoError \/ r.count = 0

\* if error: (error strings are never empty)
IsError(r) == r.error # NoError

\* the sleep between symbols is taken when idx < len(symbols) - 1 (0-based)
SleepsAfter(i, n) == i < n

\* main's loop body after the call returned
HandleResult ==
    /\ pc = "returned"
    /\ IF IsError(ret)
       THEN /\ idx' = NextIdx(idx)
            /\ pc' = "loop"
            /\ UNCHANGED <<results, sleep_time>>
       ELSE /\ results' = AddResult(results, ResultRow(date_str, symbols[idx], ret.count))
            /\ IF SleepsAfter(idx, Len(symbols))
               THEN /\ sleep_time' \in MIN_SLEEP..MAX_SLEEP
                    /\ pc' = "pacing"
                    /\ UNCHANGED idx
               ELSE /\ idx' = NextIdx(idx)
                    /\ pc' = "loop"
                    /\ UNCHANGED sleep_time
    \* the locals of the call that returned are gone
    /\ attempt' = 0
    /\ resp' = NoResp
    /\ reqs' = 0
    /\ waits' = 0
    /\ UNCHANGED <<symbols_file, csv, now, symbols, date_str, calls, returns, appends,
                   wait, ret>>
    /\ UNCHANGED histVars

\* time.sleep(sleep_time) returns
Pace ==
    /\ pc = "pacing"
    /\ now' = Tick(now)
    /\ sleep_time' = 0
    /\ idx' = NextIdx(idx)
    /\ pc' = "loop"
    /\ UNCHANGED <<symbols_file, csv, symbols, date_str, results, calls, returns,
                   appends>>
    /\ UNCHANGED fetchVars
    /\ UNCHANGED histVars

\* mutant: the append indented into the loop, the run over after one symbol
LoopDoneEarly(i, n) == i > 1

\* mutant: the append made whatever the results
HasResultsAlways(rs) == TRUE

\* the for loop has gone through the n symbols
LoopDone(i, n) == i > n

\* if results:
HasResults(rs) == rs # <<>>

\* after the loop: append the results, if any, in one call
Finish ==
    /\ pc = "loop"
    /\ LoopDone(idx, Len(symbols))
    /\ IF HasResults(results)
       THEN /\ csv' = append_many_to_csv(csv, results)
            /\ appends' = appends + 1
       ELSE UNCHANGED <<csv, appends>>
    /\ pc' = "done"
    /\ UNCHANGED <<symbols_file, now, symbols, date_str, results, idx,
                   sleep_time, calls, returns>>
    /\ UNCHANGED fetchVars
    /\ UNCHANGED histVars

\* one step of the run
Next ==
    \/ MainStart
    \/ CallFetch
    \/ Request
    \/ Backoff
    \/ HandleResult
    \/ Pace
    \/ Finish

Spec == Init /\ [][Next]_vars

(* ------------------------------------------------- the Sink on its own *)
\* rows as main builds them
SinkRowPool == {<<"T0", "AAPL", 7>>, <<"T0", "TSLA", 0>>}

\* a log file and no run under way
SinkInit ==
    /\ csv \in InitialCsv
    /\ csv0 = csv
    /\ pc = "sink"
    /\ symbols_file = [exists |-> FALSE, lines |-> <<>>]
    /\ prev = NoBackoff
    /\ now = 0
    /\ symbols = <<>>
    /\ date_str = ""
    /\ results = <<>>
    /\ idx = 0
    /\ sleep_time = 0
    /\ attempt = 0
    /\ resp = NoResp
    /\ wait = 0
    /\ ret = [count |-> None, error |-> NoError]
    /\ reqs = 0
    /\ waits = 0
    /\ calls = <<>>
    /\ returns = <<>>
    /\ appends = 0

sinkFrame == <<symbols_file, now, pc, symbols, date_str, idx, sleep_time, calls,
               returns, csv0, prev>>

\* ensure_csv(CSV_FILE)
SinkEnsure ==
    /\ pc = "sink"
    /\ csv' = ensure_csv(csv)
    /\ UNCHANGED <<results, appends>>
    /\ UNCHANGED sinkFrame
    /\ UNCHANGED fetchVars

\* append_many_to_csv(CSV_FILE, rows); results holds the rows handed over
SinkAppend ==
    /\ pc = "sink"
    /\ appends < MaxAppends
    /\ \E rows \in SeqsUpTo(SinkRowPool, MaxRows) :
          /\ csv' = append_many_to_csv(csv, rows)
          /\ results' = rows
    /\ appends' = appends + 1
    /\ UNCHANGED sinkFrame
    /\ UNCHANGED fetchVars

SinkNext ==
    \/ SinkEnsure
    \/ SinkAppend

SinkSpec == SinkInit /\ [][SinkNext]_vars

(* ------------------------------------------------- one call on its own *)
\* main has just called fetch_watchlist_count for the only symbol of its list
FetchInit ==
    /\ symbols_file = [exists |-> TRUE, lines |-> <<"aapl">>]
    /\ symbols = read_symbols(symbols_file)
    /\ csv0 = [exists |-> FALSE, lines |-> <<>>]
    /\ csv = ensure_csv(csv0)
    /\ now = 0
    /\ date_str = Strftime(now)
    /\ results = <<>>
    /\ idx = 1
    /\ sleep_time = 0
    /\ pc = "attempt"
    /\ attempt = 1
    /\ resp = NoResp
    /\ wait = 0
    /\ ret = [count |-> None, error |-> NoError]
    /\ reqs = 0
    /\ waits = 0
    /\ calls = <<1>>
    /\ returns = <<>>
    /\ appends = 0
    /\ prev = NoBackoff

\* the end of a backoff sleep, the backoff remembered for the next one
FetchBackoff ==
    /\ BackoffStep
    /\ prev' = [status |-> resp.status, attempt |-> attempt, wait |-> wait]
    /\ UNCHANGED csv0

FetchNext ==
    \/ Request
    \/ FetchBackoff

FetchSpec == FetchInit /\ [][FetchNext]_vars

(* ------------------------------------------------- vocabulary of the claims *)
\* a fetch_watchlist_count call is running or has just returned to main
InCall == pc \in {"attempt", "backoff", "returned", "crashed"}

\* a 200 response whose body carries symbol.watchlist_count
WellFormed200(r) ==
    /\ r.status = 200
    /\ r.body.top = "object"
    /\ r.body.symbol = "object"
    /\ r.body.watchlist_count # None

\* a 200 response whose body is an object lacking the field
Missing200(r) ==
    /\ r.status = 200
    /\ r.body.top = "object"
    /\ \/ r.body.symbol = "absent"
       \/ r.body.symbol = "object" /\ r.body.watchlist_count = None

\* 429, 403, status >= 500 or a network fault
Retryable(r) == r.status \in {Fault, 429, 403} \/ r.status >= 500

\* a status that is none of 200, 429, 403 and is below 500
Permanent(r) == r.status > Fault /\ r.status \notin {200, 429, 403} /\ r.status < 500

Failure(v) == v.count = None /\ v.error # NoError

(* ---------------------------------------------------------------- claims *)

\* C1: when the first response of a call is a 200 carrying
\* symbol.watchlist_count = c, the call has returned (c, no error) after that
\* single request, with no backoff wait and no further attempt.
C1_FirstOkReturnsCount ==
    (InCall /\ reqs = 1 /\ WellFormed200(resp)) =>
        /\ pc = "returned"
        /\ ret = [count |-> resp.body.watchlist_count, error |-> NoError]
        /\ returns[Len(returns)] = ret
        /\ waits = 0
        /\ attempt = 1

C1_Witness ==
    /\ pc = "returned" /\ reqs = 1 /\ WellFormed200(resp)
    /\ ret.count = 7

\* C2: a retryable outcome below the budget never ends the call: it puts
\* the call into its backoff, and attempt k is made after k-1 requests and
\* k-1 finished backoffs, which follow retryable outcomes only; a well-formed
\* 200 arriving at request k, 1 <= k <= MAX_RETRIES, ends the call in Success
\* after exactly k requests (429, 429, 200: three).
C2_RetriesThenSuccess ==
    /\ (InCall /\ Retryable(resp) /\ reqs < MAX_RETRIES) =>
           (pc = "backoff" /\ attempt = reqs /\ waits = reqs - 1)
    /\ pc = "backoff" => Retryable(resp)
    /\ pc = "attempt" => (attempt = reqs + 1 /\ waits = reqs /\ attempt <= MAX_RETRIES)
    /\ (InCall /\ WellFormed200(resp)) =>
           /\ pc = "returned"
           /\ ret = [count |-> resp.body.watchlist_count, error |-> NoError]
           /\ waits = reqs - 1
           /\ attempt = reqs
           /\ reqs \in 1..MAX_RETRIES

\* 429, 429, 200: three requests, two backoffs, Success
C2_Witness ==
    /\ pc = "returned" /\ WellFormed200(resp)
    /\ reqs = 3 /\ waits = 2 /\ ret.error = NoError

\* C3: a call never makes more than MAX_RETRIES requests; a call that has
\* returned after a retryable outcome has made exactly MAX_RETRIES requests
\* (all answered by retryable outcomes, each followed by its backoff) and
\* returned the exhausted-retries failure, which is returned in no other case.
C3_ExhaustedAfterMaxRetries ==
    /\ reqs <= MAX_RETRIES
    /\ (pc = "returned" /\ Retryable(resp)) =>
           /\ reqs = MAX_RETRIES
           /\ waits = MAX_RETRIES
           /\ ret = [count |-> None, error |-> "retries_exhausted"]
    /\ (pc = "returned" /\ ret.error = "retries_exhausted") =>
           Retryable(resp) /\ reqs = MAX_RETRIES
    /\ (InCall /\ Retryable(resp) /\ reqs < MAX_RETRIES) => pc = "backoff"

\* HTTP 500 at the sixth request
C3_Witness ==
    /\ pc = "returned" /\ resp.status = 500
    /\ reqs = MAX_RETRIES /\ ret.error = "retries_exhausted"

\* C4: a response with a status that is none of 200, 429, 403 and is below 500
\* ends the call at once with a Failure, at whatever attempt it arrives: no
\* backoff and no request follows it (the first response: one request).
C4_PermanentStatusFailsAtOnce ==
    (InCall /\ Permanent(resp)) =>
        /\ pc = "returned"
        /\ Failure(ret)
        /\ ret.error = "http_status"
        /\ reqs = attempt
        /\ waits = reqs - 1
        /\ wait = 0

\* a 404 as the third response
C4_Witness ==
    /\ pc = "returned" /\ resp.status = 404 /\ reqs = 3 /\ Failure(ret)

\* C5: a 200 whose body has no "symbol" member, or a symbol object without
\* watchlist_count, ends the call with a Failure at that attempt: no backoff
\* and no request follows it.
C5_MissingFieldFailsAtOnce ==
    (InCall /\ Missing200(resp)) =>
        /\ pc = "returned"
        /\ Failure(ret)
        /\ ret.error = "no_watchlist_count"
        /\ reqs = attempt
        /\ waits = reqs - 1
        /\ wait = 0

\* a body without "symbol" as the second response
C5_Witness ==
    /\ pc = "returned" /\ Missing200(resp) /\ resp.body.symbol = "absent"
    /\ reqs = 2 /\ Failure(ret)

\* C6: no outcome of a symbol's fetch aborts the run (whatever the status, the
\* fault or the shape of the 200 body, the call returns to the coordinator),
\* and the run stops early only for an empty symbol list, before any fetch.
C6_NoFetchAbortsRun ==
    /\ pc # "crashed"
    /\ pc = "no_symbols" => (symbols = <<>> /\ calls = <<>>)

\* the rows main is to hold after the first k calls returned: one per call
\* without error, in call order
RECURSIVE Observations(_)
Observations(k) ==
    IF k = 0 THEN <<>>
    ELSE IF returns[k].error = NoError
         THEN Append(Observations(k - 1), <<date_str, symbols[k], returns[k].count>>)
         ELSE Observations(k - 1)

\* the calls whose return main has dealt with
Handled == IF pc = "returned" THEN Len(returns) - 1 ELSE Len(returns)

\* C7: the results of the run are exactly the Observations of the calls that
\* ended in Success, each with the returned count, in input order; a failed
\* symbol never appears.
C7_ResultsAreSuccessesInOrder ==
    /\ results = Observations(Handled)
    /\ \A i \in 1..Len(results) : results[i][3] # None

\* [A, B, C] with B failing: two rows, A then C
C7_Witness ==
    /\ pc = "done" /\ Len(symbols) = 3
    /\ returns[1].error = NoError /\ Failure(returns[2]) /\ returns[3].error = NoError
    /\ symbols[1] # symbols[3]
    /\ Len(results) = 2 /\ results[1][2] = symbols[1] /\ results[2][2] = symbols[3]

\* C8: after every fetch but the last the coordinator takes one pacing sleep
\* in [MIN_SLEEP, MAX_SLEEP] before the next fetch, whatever the outcome, and
\* none after the last.
C8_PacingBetweenAllFetches ==
    [][/\ (pc = "returned" /\ idx < Len(symbols)) =>
              (pc' = "pacing" /\ sleep_time' \in MIN_SLEEP..MAX_SLEEP)
       /\ (pc = "returned" /\ idx >= Len(symbols)) => pc' # "pacing"
       /\ pc = "pacing" => (pc' = "loop" /\ idx' = idx + 1)]_vars

\* (part of C9 that holds) the calls made so far are those for the elements
\* 1..k of the input, one each and in order; a call starts only when every
\* earlier call has returned; a run that reaches the end of main has made one
\* call per element.
C9_OneCallPerSymbolInOrder ==
    /\ calls = [i \in 1..Len(calls) |-> i]
    /\ Len(calls) <= Len(symbols)
    /\ pc \in {"attempt", "backoff", "crashed"} =>
           (idx = Len(calls) /\ Len(returns) = Len(calls) - 1)
    /\ pc = "returned" => (idx = Len(calls) /\ Len(returns) = Len(calls))
    /\ pc \in {"loop", "pacing", "done"} => Len(returns) = Len(calls)
    /\ pc = "loop" => idx = Len(calls) + 1
    /\ pc = "done" => Len(calls) = Len(symbols)

\* the third call under way after a failure and a success
C9_Witness ==
    /\ pc = "attempt" /\ idx = 3 /\ calls = <<1, 2, 3>>
    /\ Failure(returns[1]) /\ returns[2].error = NoError

\* C9: the coordinator calls the Fetcher exactly once for every element of
\* the input, in input order and one call after the other: the calls made are
\* those for the elements 1..k, one each, and a run that is over, however it
\* ended, has made the call of every element.
C9_EveryElementFetchedOnce ==
    /\ calls = [i \in 1..Len(calls) |-> i]
    /\ Len(calls) <= Len(symbols)
    /\ pc \in {"attempt", "backoff"} => Len(returns) = Len(calls) - 1
    /\ pc \in {"done", "crashed"} => Len(calls) = Len(symbols)

\* C10: the timestamp is the one taken at the start of the run, before the
\* first call, and every row of the run carries it, whatever time the
\* backoffs and pacing sleeps took since.
C10_OneTimestampPerRun ==
    /\ pc \notin {"main", "no_symbols"} => date_str = Strftime(0)
    /\ calls # <<>> => date_str = Strftime(0)
    /\ \A i \in 1..Len(results) : results[i][1] = date_str
    /\ pc = "done" =>
          \A i \in 1..Len(results) :
              csv.lines[Len(csv.lines) - Len(results) + i][1] = date_str

\* two rows, the second appended after the clock moved on
C10_Witness ==
    /\ pc = "done" /\ Len(results) = 2 /\ now > 0
    /\ Strftime(now) # date_str

\* the data rows of the log: its lines but the header
DataRows(file) == SelectSeq(file.lines, LAMBDA l : l # HeaderRow)

\* every call of the run returned a Failure
AllFailed == \A k \in 1..Len(returns) : Failure(returns[k])

\* C11: a run on a missing or empty symbol list makes no fetch and no append
\* and leaves the log as it found it; a run whose every symbol ended in
\* Failure ends with no Observation and without an append, the data rows of
\* the log being those it found.
C11_NothingToAppend ==
    /\ read_symbols(symbols_file) = <<>> =>
           /\ pc \in {"main", "no_symbols"}
           /\ calls = <<>> /\ reqs = 0
           /\ results = <<>> /\ appends = 0
           /\ csv = csv0
    /\ (pc = "done" /\ AllFailed) =>
           /\ results = <<>> /\ appends = 0
           /\ DataRows(csv) = DataRows(csv0)
           /\ csv.lines = ensure_csv(csv0).lines

\* two symbols, both failed, on a log that did not exist
C11_Witness ==
    /\ pc = "done" /\ Len(symbols) = 2 /\ Len(returns) = 2 /\ AllFailed
    /\ ~csv0.exists /\ csv.lines = <<HeaderRow>>

\* C12: the log only grows at its end.  A step that is no append is
\* ensure_csv: it leaves an existing log as it is and makes an absent one the
\* header row alone.  An append keeps the lines there were as a prefix and
\* adds the rows handed over, one line each, in their order, also when the
\* same rows were appended just before.
C12_LogIsAppendOnly ==
    [][LET n == Len(csv.lines)
       IN  /\ Len(csv'.lines) >= n
           /\ SubSeq(csv'.lines, 1, n) = csv.lines
           /\ csv.exists => csv'.exists
           /\ appends' = appends =>
                  csv' = IF csv.exists THEN csv
                         ELSE [exists |-> TRUE, lines |-> <<HeaderRow>>]
           /\ appends' = appends + 1 =>
                  /\ Len(csv'.lines) = n + Len(results')
                  /\ \A i \in 1..Len(results') :
                         csv'.lines[n + i] =
                             <<results'[i][1], results'[i][2], ToString(results'[i][3])>>]_vars

\* the same two rows appended twice to the log of an earlier run: there twice
C12_Witness ==
    /\ appends = 2 /\ Len(results) = 2 /\ results[1] # results[2]
    /\ csv.lines = <<HeaderRow, PriorRow>> \o CsvRows(results) \o CsvRows(results)

\* C13: a run appends at most once, and only once every symbol's call has
\* returned: the one append hands over all the Observations of the run.  In
\* every state before it (a run stopped there included) no append has been
\* made and the data rows of the log are those the run found.
C13_OneAppendAtTheEnd ==
    /\ appends <= 1
    /\ pc # "done" => (appends = 0 /\ DataRows(csv) = DataRows(csv0))
    /\ appends = 1 =>
           /\ pc = "done"
           /\ Len(calls) = Len(symbols) /\ Len(returns) = Len(symbols)
           /\ results = Observations(Len(symbols))
           /\ csv.lines = ensure_csv(csv0).lines \o CsvRows(results)
    /\ (pc = "done" /\ results # <<>>) => appends = 1

\* two Observations appended after the prior row of an earlier run
C13_Witness ==
    /\ pc = "done" /\ appends = 1 /\ Len(results) = 2 /\ Len(symbols) = 3
    /\ csv.lines = <<HeaderRow, PriorRow>> \o CsvRows(results)

\* C14: the waits after a first and a second consecutive 429 are below the
\* ceiling of 60 s, and the wait after a 429 (a 403) that follows a 429 (a
\* 403) is not smaller than the wait before it, whatever the jitter drawn.
C14_RateLimitWaitsNonDecreasing ==
    /\ (pc = "backoff" /\ resp.status = 429 /\ attempt = 1) => wait < 60
    /\ (pc = "backoff" /\ resp.status = 429 /\ attempt = 2 /\ prev.status = 429) =>
           wait < 60
    /\ (pc = "backoff" /\ resp.status \in {429, 403} /\ prev.status = resp.status) =>
           (prev.attempt = attempt - 1 /\ wait >= prev.wait)

\* C15: a backoff wait is taken only on the way to another attempt: none
\* after the attempt MAX_RETRIES, and a call that has returned after k
\* requests has finished at most k-1 backoff waits.
C15_WaitsOnlyBeforeAnotherAttempt ==
    /\ pc = "backoff" => attempt < MAX_RETRIES
    /\ pc = "returned" => waits <= reqs - 1

\* C16: at every attempt 1..MAX_RETRIES and for every jitter, the wait after
\* a 429 is min(60, 2^attempt + j) for a j in 0..5, so at most 60; after a 403
\* it is min(90, 2^attempt + j) for a j in 2..10, so at most 90; after a
\* status >= 500 or a network fault it lies in 5..10 at whatever attempt.
C16_WaitsWithinCeilings ==
    pc = "backoff" =>
        /\ attempt \in 1..MAX_RETRIES
        /\ resp.status = 429 =>
               /\ wait <= 60
               /\ \E j \in 0..5 :
                      wait = IF 2^attempt + j < 60 THEN 2^attempt + j ELSE 60
        /\ resp.status = 403 =>
               /\ wait <= 90
               /\ \E j \in 2..10 :
                      wait = IF 2^attempt + j < 90 THEN 2^attempt + j ELSE 90
        /\ (resp.status >= 500 \/ resp.status = Fault) => wait \in 5..10
        /\ resp.status \in {429, 403, Fault} \/ resp.status >= 500

\* a 429 at the sixth attempt: 2^6 + j is cut to the ceiling
C16_Witness ==
    /\ pc = "backoff" /\ resp.status = 429 /\ attempt = MAX_RETRIES /\ wait = 60

\* the terminal state a returned call is in
TerminalStates(v) ==
    {t \in {"Success", "PermanentFailure", "RetriesExhausted"} :
        \/ t = "Success" /\ v.error = NoError /\ v.count # None
        \/ t = "PermanentFailure" /\ v.error \in {"http_status", "no_watchlist_count"}
        \/ t = "RetriesExhausted" /\ v.error = "retries_exhausted"}

\* C17: a call never makes more than MAX_RETRIES requests, and whatever the
\* responses a call that is over has returned to main in exactly one of the
\* terminal states Success, PermanentFailure, RetriesExhausted, after 1 to
\* MAX_RETRIES requests.
C17_CallEndsInOneTerminalState ==
    /\ reqs <= MAX_RETRIES
    /\ pc \in {"returned", "crashed"} =>
           /\ pc = "returned"
           /\ reqs \in 1..MAX_RETRIES
           /\ Cardinality(TerminalStates(ret)) = 1

\* C18: a transient error is not surfaced before the budget is spent. A call
\* that returned a failure after fewer than MAX_RETRIES requests got a
\* permanent last response (a status outside {200, 429, 403} below 500, or a
\* 200 without the count); an attempt that got a retryable response (429, 403,
\* >= 500, network fault) goes to its backoff and returns nothing; and the
\* backoff of a call with fewer than MAX_RETRIES requests is followed by the
\* next attempt, never by a return.
C18_TransientNotSurfacedEarly ==
    [][ /\ (pc' = "returned" /\ pc # "returned" /\ Failure(ret') /\ reqs' < MAX_RETRIES)
            => (Permanent(resp') \/ Missing200(resp'))
        /\ (pc = "attempt" /\ pc' # "attempt" /\ Retryable(resp'))
            => (pc' = "backoff" /\ returns' = returns)
        /\ (pc = "backoff" /\ pc' # "backoff" /\ reqs < MAX_RETRIES)
            => (pc' = "attempt" /\ attempt' = attempt + 1 /\ reqs' = reqs
                /\ returns' = returns) ]_vars

\* a permanent failure surfaced at once after three retried transient errors
C18_Witness ==
    /\ pc = "returned"
    /\ Failure(ret)
    /\ reqs = 4
    /\ waits = 3
    /\ Permanent(resp)

\* the waits the retry branch of response r can take at attempt n
WaitsAt(r, n) ==
    LET kind == IF r.status = Fault THEN "network_error" ELSE Classify(r.status)
    IN  {BackoffWait(kind, n, j) : j \in Jitter(kind)}

\* C19: retry state is scoped to one call. Whatever the earlier calls of the
\* run did, a call starts at attempt 1 with nothing requested and nothing
\* waited, its attempt counter counts its own requests only, its backoff wait
\* is the one of its own attempt number, it never makes more than MAX_RETRIES
\* requests and it gives up only after MAX_RETRIES requests of its own.
C19_RetryStateScopedToOneCall ==
    /\ pc = "attempt" => attempt = reqs + 1 /\ waits = reqs /\ attempt <= MAX_RETRIES
    /\ pc = "backoff" => /\ attempt = reqs
                         /\ waits = reqs - 1
                         /\ wait \in WaitsAt(resp, reqs)
    /\ reqs <= MAX_RETRIES
    /\ (pc = "returned" /\ ret.error = "retries_exhausted") =>
           (reqs = MAX_RETRIES /\ waits = MAX_RETRIES)
    /\ (pc = "returned" /\ ret.error # "retries_exhausted") => waits = reqs - 1

\* the call after an exhausted one had the full budget and exhausted it too
C19_Witness ==
    /\ pc = "returned"
    /\ Len(calls) = 2
    /\ returns[1].error = "retries_exhausted"
    /\ ret.error = "retries_exhausted"
    /\ reqs = MAX_RETRIES

\* the positions of a sequence of rows whose count field is v
RowsWithCount(rows, v) == {i \in 1..Len(rows) : rows[i][3] = v}

\* C20: a call returns exactly one of a count and an error; a 200 whose body
\* holds symbol.watchlist_count = 0 returns the count 0 and no error; and the
\* coordinator records one Observation with count 0 for every such return,
\* which the run's append writes to the log as "0".
C20_ExactlyOneAndZeroIsSuccess ==
    /\ \A k \in 1..Len(returns) :
           /\ (returns[k].count = None) # (returns[k].error = NoError)
           /\ returns[k].count # None => returns[k].count \in Counts
    /\ (pc = "returned" /\ WellFormed200(resp) /\ resp.body.watchlist_count = 0) =>
           ret = [count |-> 0, error |-> NoError]
    /\ Cardinality(RowsWithCount(results, 0))
           = Cardinality({k \in 1..Handled : returns[k].count = 0})
    /\ \A k \in 1..Handled : returns[k].count = 0 =>
           \E i \in 1..Len(results) : results[i] = <<date_str, symbols[k], 0>>
    /\ pc = "done" =>
           Cardinality(RowsWithCount(csv.lines, "0"))
               = Cardinality(RowsWithCount(results, 0))

\* a run that ended with an Observation of count 0 in the log
C20_Witness ==
    /\ pc = "done"
    /\ \E k \in 1..Len(returns) : returns[k] = [count |-> 0, error |-> NoError]
    /\ \E i \in 1..Len(results) : results[i][3] = 0
    /\ \E i \in 1..Len(csv.lines) : csv.lines[i][3] = "0"

====
